---- MODULE Spec2Model ----
(***************************************************************************)
(* JniChatListener (rust/bridge/shared/types/src/jni/chat.rs): the adapter *)
(* that relays chat events from native threads to a Java listener object.  *)
(* State: the adapter instances (JavaVM pointer + GlobalRef), the strong   *)
(* reference count of each Java object, each native thread's attachment    *)
(* and position inside a delivery, the Java calls issued and the log.      *)
(***************************************************************************)
EXTENDS Integers, Sequences, FiniteSets, TLC

\* ---------------------------------------------------------------- bounds
NThreads == 2       \* threads that may deliver
MaxAdapters == 2    \* adapter instances ever created (new + clones)
MaxOps == 2         \* deliveries ever started
MaxEnvLen == 1      \* longest envelope
TsBits == 2         \* width of the timestamp integer (u64/i64 scaled down)
InitRefs == 1       \* references the Java side itself holds on each object

\* ---------------------------------------------------------------- domains
Threads == 1..NThreads
\* Odd threads are native threads the JVM does not know yet; even threads are
\* already attached when they deliver (threads the JVM started).
JavaThread(t) == t % 2 = 0
AdapterIds == 1..MaxAdapters
NoAdapter == 0

\* Java objects handed to JniChatListener::new, by declared class.
Objs == {"listener", "other"}
ExpectedClass == "org.signal.libsignal.net.internal.MakeChatListener"
ClassNameOf(o) == IF o = "listener" THEN ExpectedClass ELSE "java.lang.Object"

TheVM == "JavaVM"

\* Vec<u8>: sequences of bytes, the bytes taken from both halves of 0..255.
Bytes == {0, 200}
RECURSIVE SeqsUpTo(_, _)
SeqsUpTo(S, n) ==
    IF n = 0 THEN {<< >>}
    ELSE LET shorter == SeqsUpTo(S, n - 1)
         IN  shorter \cup {Append(s, x) : s \in {q \in shorter : Len(q) = n - 1}, x \in S}
Envelopes == SeqsUpTo(Bytes, MaxEnvLen)

\* Timestamp::epoch_millis() is an unsigned integer of TsBits bits.
TsModulus == 2 ^ TsBits
Timestamps == 0..(TsModulus - 1)

\* ServerMessageAck values and ChatServiceError values.
Acks == {"ack1", "ack2"}
Causes == {"Disconnected", "Timeout"}

\* The message every thread may deliver while deliveries interleave.
SampleEnvelope == <<200>>
SampleTimestamp == TsModulus - 1
SampleAck == "ack1"
SampleCause == "Timeout"

\* ---------------------------------------------------------------- conversions
\* The cast with the top bit masked off instead of read as the sign.
AsI64MaskingSign(u) == u % (TsModulus \div 2)
\* `timestamp.epoch_millis() as i64`: the unsigned value reinterpreted as signed.
AsI64(u) == IF u >= TsModulus \div 2 THEN u - TsModulus ELSE u

\* u8 -> jbyte (signed) as the byte array is filled.
AsJByte(b) == IF b >= 128 THEN b - 256 ELSE b
\* Vec<u8>::convert_into: a new Java byte[] holding the same bytes.
ToJByteArray(e) == [i \in 1..Len(e) |-> AsJByte(e[i])]

\* ServerMessageAck::convert_into: the handle of the boxed ack.
NoHandle == << >>
ToHandle(ack) == <<"ServerMessageAck", ack>>

\* convert_to_exception: the Java throwable built for a native error.
ToThrowable(cause) == <<"ChatServiceException", cause>>

\* check_jobject_type: the object's class against the required class name.
check_jobject_type(o, className) ==
    IF ClassNameOf(o) = className THEN "Ok" ELSE "TypeMismatch"

\* The name each ChatListener method passes to attach_and_log_on_error.
OperationName(kind) ==
    CASE kind = "incoming" -> "incoming message"
      [] kind = "queue_empty" -> "queue empty"
      [] kind = "interrupted" -> "connection interrupted"

\* The Java method each ChatListener method calls.
MethodName(kind) ==
    CASE kind = "incoming" -> "onIncomingMessage"
      [] kind = "queue_empty" -> "onQueueEmpty"
      [] kind = "interrupted" -> "onConnectionInterrupted"

\* The report without the operation name.
ReportMessageWithoutName(name, e) == <<"failed to report ", e>>
\* log::error!("failed to report {name}: {e}")
ReportMessage(name, e) == <<"failed to report ", name, ": ", e>>
\* log::error!("failed to call onConnectionInterrupted with cause: {error}")
InterruptedMessage(e) == <<"failed to call onConnectionInterrupted with cause: ", e>>

\* ---------------------------------------------------------------- state
\* What chat.rs leaves to the jni crate it is built against: whether a cloned
\* GlobalRef shares its source's JNI global reference or takes one of its own,
\* and whether the value of attach_current_thread detaches the thread when it
\* goes out of scope or leaves it attached.
Builds == [sharesGlobal : BOOLEAN, scopedAttach : BOOLEAN]

VARIABLES
    jni,         \* the behaviour of the jni crate in this build, fixed throughout
    adapters,    \* adapter id -> the JniChatListener instance and its lifetime
    refCount,    \* Java object -> JNI references on it (Java side + native global refs)
    strong,      \* construction -> live GlobalRef values made from it (it and its clones)
    newResult,   \* what the last JniChatListener::new call returned
    attached,    \* thread -> attached to the JVM
    pc,          \* thread -> position inside its delivery
    op,          \* thread -> the delivery it is running
    calls,       \* thread -> Java calls issued by the delivery it is running
    log,         \* thread -> log entries written by the delivery it is running
    faulted,     \* the swallowed failures so far: <<adapter, event, error>>
    nOps,        \* deliveries started
    nCalls,      \* Java calls issued
    nSkipped     \* deliveries whose conversion or translation failed

vars == <<jni, adapters, refCount, strong, newResult, attached, pc, op, calls, log,
          faulted, nOps, nCalls, nSkipped>>

\* The `listener: GlobalRef` of an instance: `listener` is the Java object it
\* refers to, `global` the construction (by its instance) whose new_global_ref
\* it comes from, directly or by clone.
NoGlobal == 0
Unborn == [state |-> "unborn", vm |-> "none", listener |-> "none", global |-> NoGlobal]

NoOp ==
    [kind |-> "none", adapter |-> NoAdapter, envelope |-> << >>, timestamp |-> 0,
     ack |-> "none", cause |-> "none", env_array |-> << >>, ack_handle |-> NoHandle,
     throwable |-> << >>, result |-> "none", error |-> "none", detach |-> FALSE]

Live == {a \in AdapterIds : adapters[a].state = "live"}
LiveOn(o) == {a \in Live : adapters[a].listener = o}
\* A dropped instance is "leaked" when the JNI reference its drop had to delete
\* could not be deleted.
DroppedOn(o) ==
    {a \in AdapterIds : adapters[a].state \in {"dropped", "leaked"} /\ adapters[a].listener = o}
LeakedOn(o) == {a \in AdapterIds : adapters[a].state = "leaked" /\ adapters[a].listener = o}
Allocated == {a \in AdapterIds : adapters[a].state # "unborn"}
\* The live instances whose GlobalRef comes from construction g.
Holders(g) == {a \in Live : adapters[a].global = g}

\* A delivery holds `&mut self` of its adapter from the call until it returns.
Running(t) == pc[t] \notin {"idle", "panicked"}
Borrowed(a) == \E t \in Threads : Running(t) /\ op[t].adapter = a

Init ==
    /\ jni \in Builds
    /\ adapters = [a \in AdapterIds |-> Unborn]
    /\ refCount = [o \in Objs |-> InitRefs]
    /\ strong = [g \in AdapterIds |-> 0]
    /\ newResult = [obj |-> "none", result |-> "none"]
    /\ attached = [t \in Threads |-> JavaThread(t)]
    /\ pc = [t \in Threads |-> "idle"]
    /\ op = [t \in Threads |-> NoOp]
    /\ calls = [t \in Threads |-> << >>]
    /\ log = [t \in Threads |-> << >>]
    /\ faulted = {}
    /\ nOps = 0
    /\ nCalls = 0
    /\ nSkipped = 0

deliveryVars == <<attached, pc, op, calls, log, faulted, nOps, nCalls, nSkipped>>
lifetimeVars == <<jni, adapters, refCount, strong, newResult>>

\* ---------------------------------------------------------------- lifetime
\* The adapter a constructor or clone fills in: the next unused instance.
NextId == Cardinality(Allocated) + 1

\* What may happen after the type check has passed: both calls succeed,
\* get_java_vm fails, or new_global_ref fails.
Acquisitions == {"Ok", "NoVM", "NoGlobalRef"}

\* New with the global reference taken before the type check and not given back.
NewAcquiresBeforeCheck(o) ==
    /\ LET checked == check_jobject_type(o, ExpectedClass)
       IN  IF checked # "Ok"
           THEN /\ newResult' = [obj |-> o, result |-> checked]
                /\ refCount' = [refCount EXCEPT ![o] = @ + 1]
                /\ UNCHANGED <<adapters, strong>>
           ELSE \E got \in Acquisitions :
                   IF got # "Ok"
                   THEN /\ newResult' = [obj |-> o, result |-> "panicked"]
                        /\ UNCHANGED <<adapters, refCount, strong>>
                   ELSE /\ NextId \in AdapterIds
                        /\ adapters' = [adapters EXCEPT ![NextId] =
                                [state |-> "live", vm |-> TheVM, listener |-> o,
                                 global |-> NextId]]
                        /\ refCount' = [refCount EXCEPT ![o] = @ + 1]
                        /\ strong' = [strong EXCEPT ![NextId] = 1]
                        /\ newResult' = [obj |-> o, result |-> "Ok"]
    /\ UNCHANGED <<jni, deliveryVars>>

\* JniChatListener::new: the type check; then env.get_java_vm().expect(..) and
\* env.new_global_ref(listener).expect(..), either of which panics on failure
\* and leaves no instance and no reference behind.
New(o) ==
    /\ LET checked == check_jobject_type(o, ExpectedClass)
       IN  IF checked # "Ok"
           THEN /\ newResult' = [obj |-> o, result |-> checked]
                /\ UNCHANGED <<adapters, refCount, strong>>
           ELSE \E got \in Acquisitions :
                   IF got # "Ok"
                   THEN /\ newResult' = [obj |-> o, result |-> "panicked"]
                        /\ UNCHANGED <<adapters, refCount, strong>>
                   ELSE /\ NextId \in AdapterIds
                        /\ adapters' = [adapters EXCEPT ![NextId] =
                                [state |-> "live", vm |-> TheVM, listener |-> o,
                                 global |-> NextId]]
                        /\ refCount' = [refCount EXCEPT ![o] = @ + 1]
                        /\ strong' = [strong EXCEPT ![NextId] = 1]
                        /\ newResult' = [obj |-> o, result |-> "Ok"]
    /\ UNCHANGED <<jni, deliveryVars>>

\* Clone that moves the reference out of its source instead of copying it.
CloneConsumesSource(a) ==
    /\ a \in Live
    /\ ~Borrowed(a)
    /\ NextId \in AdapterIds
    /\ adapters' = [adapters EXCEPT
            ![NextId] = [state |-> "live", vm |-> adapters[a].vm,
                         listener |-> adapters[a].listener, global |-> adapters[a].global],
            ![a].state = "dropped"]
    /\ UNCHANGED <<jni, refCount, strong, newResult, deliveryVars>>

\* impl Clone for JniChatListener: clone(&self) needs the instance not to be
\* mutably borrowed by a delivery; the JavaVM is rebuilt from the same pointer
\* (never null, so the expect cannot fail) and self.listener.clone() gives the
\* new instance a GlobalRef to the same object, which takes a JNI reference of
\* its own or shares its source's, as the jni crate has it.
Clone(a) ==
    /\ a \in Live
    /\ ~Borrowed(a)
    /\ NextId \in AdapterIds
    /\ adapters' = [adapters EXCEPT ![NextId] =
            [state |-> "live", vm |-> adapters[a].vm,
             listener |-> adapters[a].listener, global |-> adapters[a].global]]
    /\ strong' = [strong EXCEPT ![adapters[a].global] = @ + 1]
    /\ refCount' = [refCount EXCEPT ![adapters[a].listener] =
            IF jni.sharesGlobal THEN @ ELSE @ + 1]
    /\ UNCHANGED <<jni, newResult, deliveryVars>>

\* MakeChatListener::make_listener: Box::new(self.clone())
MakeListener(a) == Clone(a)

\* Drop that never deletes a JNI reference.
DropKeepsReference(a) ==
    /\ a \in Live
    /\ ~Borrowed(a)
    /\ adapters' = [adapters EXCEPT ![a].state = "dropped"]
    /\ strong' = [strong EXCEPT ![adapters[a].global] = @ - 1]
    /\ UNCHANGED <<jni, refCount, newResult, deliveryVars>>

\* Drop that deletes every native reference on the object at once.
DropReleasesObject(a) ==
    /\ a \in Live
    /\ ~Borrowed(a)
    /\ adapters' = [adapters EXCEPT ![a].state = "dropped"]
    /\ strong' = [strong EXCEPT ![adapters[a].global] = @ - 1]
    /\ refCount' = [refCount EXCEPT ![adapters[a].listener] = InitRefs]
    /\ UNCHANGED <<jni, newResult, deliveryVars>>

\* Dropping an instance drops its fields. Its GlobalRef has a JNI reference to
\* delete if it has one of its own or is the last to share one; deleting it
\* can fail (the JVM cannot be reached from the dropping thread), and then the
\* reference stays on the object.
Drop(a) ==
    /\ a \in Live
    /\ ~Borrowed(a)
    /\ strong' = [strong EXCEPT ![adapters[a].global] = @ - 1]
    /\ LET owes == ~jni.sharesGlobal \/ strong[adapters[a].global] = 1
       IN  \E deleted \in BOOLEAN :
              /\ ~owes => deleted
              /\ adapters' = [adapters EXCEPT ![a].state =
                      IF owes /\ ~deleted THEN "leaked" ELSE "dropped"]
              /\ refCount' = [refCount EXCEPT ![adapters[a].listener] =
                      IF owes /\ deleted THEN @ - 1 ELSE @]
    /\ UNCHANGED <<jni, newResult, deliveryVars>>

\* ---------------------------------------------------------------- delivery
\* A delivery whose arguments are converted by the caller, ahead of the attach.
StartConvertsFirst(t, a, delivery) ==
    /\ pc[t] = "idle"
    /\ a \in Live
    /\ ~Borrowed(a)
    /\ nOps < MaxOps
    /\ nOps' = nOps + 1
    /\ op' = [op EXCEPT ![t] =
            [delivery EXCEPT !.env_array = ToJByteArray(delivery.envelope),
                             !.throwable = ToThrowable(delivery.cause)]]
    /\ pc' = [pc EXCEPT ![t] = "attach"]
    /\ UNCHANGED <<lifetimeVars, attached, calls, log, faulted, nCalls, nSkipped>>

\* A ChatListener method is called on adapter a from thread t: it borrows the
\* adapter and enters attach_and_log_on_error.
Start(t, a, delivery) ==
    /\ pc[t] = "idle"
    /\ a \in Live
    /\ ~Borrowed(a)
    /\ nOps < MaxOps
    /\ nOps' = nOps + 1
    /\ op' = [op EXCEPT ![t] = delivery]
    /\ pc' = [pc EXCEPT ![t] = "attach"]
    /\ UNCHANGED <<lifetimeVars, attached, calls, log, faulted, nCalls, nSkipped>>

\* ChatListener::received_incoming_message
ReceivedIncomingMessage(t, a, envelope, timestamp, ack) ==
    Start(t, a, [NoOp EXCEPT !.kind = "incoming", !.adapter = a, !.envelope = envelope,
                             !.timestamp = timestamp, !.ack = ack])

\* ChatListener::received_queue_empty
ReceivedQueueEmpty(t, a) ==
    Start(t, a, [NoOp EXCEPT !.kind = "queue_empty", !.adapter = a])

\* ChatListener::connection_interrupted
ConnectionInterrupted(t, a, cause) ==
    Start(t, a, [NoOp EXCEPT !.kind = "interrupted", !.adapter = a, !.cause = cause])

\* Where the operation closure of each method begins once the thread is attached.
FirstStep(kind) ==
    CASE kind = "incoming" -> "convert_envelope"
      [] kind = "queue_empty" -> "invoke"
      [] kind = "interrupted" -> "translate"

\* An attach failure handed to the log-and-swallow path like any other error.
AttachFailedIsLogged(t) ==
    /\ op' = [op EXCEPT ![t].result = "Err", ![t].error = "AttachError"]
    /\ pc' = [pc EXCEPT ![t] = "match"]
    /\ UNCHANGED <<log, attached>>

\* What attach_and_log_on_error does when attach_current_thread fails: expect
\* panics, the delivery unwinds (dropping its arguments) and never returns.
AttachFailed(t) ==
    /\ pc' = [pc EXCEPT ![t] = "panicked"]
    /\ op' = [op EXCEPT ![t] = NoOp]
    /\ UNCHANGED <<log, attached>>

\* self.vm.attach_current_thread().expect("can attach thread"): a thread that
\* is already attached is left as it is; otherwise the thread is attached and
\* the returned value, the closure's local `env`, stands for that attachment
\* (op.detach); a failed attach panics.
Attach(t) ==
    /\ pc[t] = "attach"
    /\ IF attached[t]
       THEN /\ pc' = [pc EXCEPT ![t] = FirstStep(op[t].kind)]
            /\ UNCHANGED <<op, log, attached>>
       ELSE \E ok \in BOOLEAN :
               IF ok
               THEN /\ attached' = [attached EXCEPT ![t] = TRUE]
                    /\ op' = [op EXCEPT ![t].detach = TRUE]
                    /\ pc' = [pc EXCEPT ![t] = FirstStep(op[t].kind)]
                    /\ UNCHANGED log
               ELSE AttachFailed(t)
    /\ UNCHANGED <<lifetimeVars, calls, faulted, nOps, nCalls, nSkipped>>

\* The ack boxed first, the envelope converted after it.
ConvertEnvelopeAfterAck(t) ==
    /\ pc[t] = "convert_envelope"
    /\ \E ok \in BOOLEAN :
          IF ok
          THEN /\ op' = [op EXCEPT ![t].env_array = ToJByteArray(op[t].envelope),
                                   ![t].ack_handle = ToHandle(op[t].ack)]
               /\ pc' = [pc EXCEPT ![t] = "convert_ack"]
               /\ UNCHANGED nSkipped
          ELSE /\ op' = [op EXCEPT ![t].ack_handle = ToHandle(op[t].ack),
                                   ![t].result = "Err", ![t].error = "ConversionError"]
               /\ pc' = [pc EXCEPT ![t] = "match"]
               /\ nSkipped' = nSkipped + 1
    /\ UNCHANGED <<lifetimeVars, attached, calls, log, faulted, nOps, nCalls>>

\* let env_array = envelope.convert_into(env)?;
ConvertEnvelope(t) ==
    /\ pc[t] = "convert_envelope"
    /\ \E ok \in BOOLEAN :
          IF ok
          THEN /\ op' = [op EXCEPT ![t].env_array = ToJByteArray(op[t].envelope)]
               /\ pc' = [pc EXCEPT ![t] = "convert_ack"]
               /\ UNCHANGED nSkipped
          ELSE /\ op' = [op EXCEPT ![t].result = "Err", ![t].error = "ConversionError"]
               /\ pc' = [pc EXCEPT ![t] = "match"]
               /\ nSkipped' = nSkipped + 1
    /\ UNCHANGED <<lifetimeVars, attached, calls, log, faulted, nOps, nCalls>>

\* let ack_handle = ack.convert_into(env)?;
ConvertAck(t) ==
    /\ pc[t] = "convert_ack"
    /\ \E ok \in BOOLEAN :
          IF ok
          THEN /\ op' = [op EXCEPT ![t].ack_handle = ToHandle(op[t].ack)]
               /\ pc' = [pc EXCEPT ![t] = "invoke"]
               /\ UNCHANGED nSkipped
          ELSE /\ op' = [op EXCEPT ![t].result = "Err", ![t].error = "ConversionError"]
               /\ pc' = [pc EXCEPT ![t] = "match"]
               /\ nSkipped' = nSkipped + 1
    /\ UNCHANGED <<lifetimeVars, attached, calls, log, faulted, nOps, nCalls>>

\* A translation that reports its own failure before handing it to the closure.
TranslateLogsFailure(t) ==
    /\ pc[t] = "translate"
    /\ \E ok \in BOOLEAN :
          IF ok
          THEN /\ op' = [op EXCEPT ![t].throwable = ToThrowable(op[t].cause)]
               /\ pc' = [pc EXCEPT ![t] = "invoke"]
               /\ UNCHANGED <<nSkipped, log>>
          ELSE /\ op' = [op EXCEPT ![t].result = "Err", ![t].error = "TranslationError"]
               /\ log' = [log EXCEPT ![t] = Append(@, InterruptedMessage("TranslationError"))]
               /\ pc' = [pc EXCEPT ![t] = "handler"]
               /\ nSkipped' = nSkipped + 1
    /\ UNCHANGED <<lifetimeVars, attached, calls, faulted, nOps, nCalls>>

\* convert_to_exception(env, SignalJniError::from(disconnect_cause), ...): hands
\* the closure either the throwable or the error of building it.
Translate(t) ==
    /\ pc[t] = "translate"
    /\ \E ok \in BOOLEAN :
          IF ok
          THEN /\ op' = [op EXCEPT ![t].throwable = ToThrowable(op[t].cause)]
               /\ pc' = [pc EXCEPT ![t] = "invoke"]
               /\ UNCHANGED nSkipped
          ELSE /\ op' = [op EXCEPT ![t].result = "Err", ![t].error = "TranslationError"]
               /\ pc' = [pc EXCEPT ![t] = "handler"]
               /\ nSkipped' = nSkipped + 1
    /\ UNCHANGED <<lifetimeVars, attached, calls, log, faulted, nOps, nCalls>>

\* The timestamp clamped to the largest signed value instead of cast.
CallArgsSaturating(o) ==
    CASE o.kind = "incoming" ->
            <<o.env_array,
              IF o.timestamp >= TsModulus \div 2 THEN TsModulus \div 2 - 1 ELSE o.timestamp,
              o.ack_handle>>
      [] o.kind = "queue_empty" -> << >>
      [] o.kind = "interrupted" -> <<o.throwable>>

\* The jni_args! tuple of each call site.
CallArgs(o) ==
    CASE o.kind = "incoming" -> <<o.env_array, AsI64(o.timestamp), o.ack_handle>>
      [] o.kind = "queue_empty" -> << >>
      [] o.kind = "interrupted" -> <<o.throwable>>

\* A listener that stops being called once a delivery through it has failed.
InvokeUnlessFaulted(t) ==
    /\ pc[t] = "invoke"
    /\ IF \E f \in faulted : f[1] = op[t].adapter
       THEN /\ op' = [op EXCEPT ![t].result = "Ok"]
            /\ pc' = [pc EXCEPT ![t] = "match"]
            /\ UNCHANGED <<calls, nCalls>>
       ELSE /\ calls' = [calls EXCEPT ![t] = Append(@,
                    [method |-> MethodName(op[t].kind),
                     target |-> adapters[op[t].adapter].listener,
                     args |-> CallArgs(op[t])])]
            /\ nCalls' = nCalls + 1
            /\ pc' = [pc EXCEPT ![t] = "in_call"]
            /\ UNCHANGED op
    /\ UNCHANGED <<lifetimeVars, attached, log, faulted, nOps, nSkipped>>

\* A call that is lost when another thread is inside a Java call.
InvokeDropsWhenBusy(t) ==
    /\ pc[t] = "invoke"
    /\ IF \E u \in Threads \ {t} : pc[u] = "in_call"
       THEN UNCHANGED <<calls, nCalls>>
       ELSE /\ calls' = [calls EXCEPT ![t] = Append(@,
                    [method |-> MethodName(op[t].kind),
                     target |-> adapters[op[t].adapter].listener,
                     args |-> CallArgs(op[t])])]
            /\ nCalls' = nCalls + 1
    /\ pc' = [pc EXCEPT ![t] = "in_call"]
    /\ UNCHANGED <<lifetimeVars, attached, op, log, faulted, nOps, nSkipped>>

\* A call made under a lock shared by all adapters and held until it returns.
InvokeUnderLock(t) ==
    /\ pc[t] = "invoke"
    /\ \A u \in Threads \ {t} : pc[u] # "in_call"
    /\ calls' = [calls EXCEPT ![t] = Append(@,
            [method |-> MethodName(op[t].kind),
             target |-> adapters[op[t].adapter].listener,
             args |-> CallArgs(op[t])])]
    /\ nCalls' = nCalls + 1
    /\ pc' = [pc EXCEPT ![t] = "in_call"]
    /\ UNCHANGED <<lifetimeVars, attached, op, nOps, log, faulted, nSkipped>>

\* call_method_checked(env, listener, name, args): the Java method is entered.
Invoke(t) ==
    /\ pc[t] = "invoke"
    /\ calls' = [calls EXCEPT ![t] = Append(@,
            [method |-> MethodName(op[t].kind),
             target |-> adapters[op[t].adapter].listener,
             args |-> CallArgs(op[t])])]
    /\ nCalls' = nCalls + 1
    /\ pc' = [pc EXCEPT ![t] = "in_call"]
    /\ UNCHANGED <<lifetimeVars, attached, op, log, faulted, nOps, nSkipped>>

\* A throwing Java method that is called again.
CallReturnsRetries(t) ==
    /\ pc[t] = "in_call"
    /\ \E thrown \in BOOLEAN :
          IF thrown
          THEN /\ pc' = [pc EXCEPT ![t] = "invoke"]
               /\ UNCHANGED op
          ELSE /\ op' = [op EXCEPT ![t].result = "Ok", ![t].error = "none"]
               /\ pc' = [pc EXCEPT ![t] =
                        IF op[t].kind = "interrupted" THEN "handler" ELSE "match"]
    /\ UNCHANGED <<lifetimeVars, attached, calls, log, faulted, nOps, nCalls, nSkipped>>

\* The Java method returns or throws; call_method_checked turns a throw into Err.
CallReturns(t) ==
    /\ pc[t] = "in_call"
    /\ \E thrown \in BOOLEAN :
          op' = [op EXCEPT ![t].result = IF thrown THEN "Err" ELSE "Ok",
                           ![t].error = IF thrown THEN "InvocationError" ELSE "none"]
    /\ pc' = [pc EXCEPT ![t] = IF op[t].kind = "interrupted" THEN "handler" ELSE "match"]
    /\ UNCHANGED <<lifetimeVars, attached, calls, log, faulted, nOps, nCalls, nSkipped>>

\* The closure logging the error and also returning it.
InterruptedHandlerPropagates(t) ==
    /\ pc[t] = "handler"
    /\ log' = [log EXCEPT ![t] =
            IF op[t].result = "Err" THEN Append(@, InterruptedMessage(op[t].error)) ELSE @]
    /\ pc' = [pc EXCEPT ![t] = "match"]
    /\ UNCHANGED <<lifetimeVars, attached, op, calls, faulted, nOps, nCalls, nSkipped>>

\* connection_interrupted's closure: throwable.and_then(call).unwrap_or_else(log),
\* after which the operation returns Ok(()).
InterruptedHandler(t) ==
    /\ pc[t] = "handler"
    /\ log' = [log EXCEPT ![t] =
            IF op[t].result = "Err" THEN Append(@, InterruptedMessage(op[t].error)) ELSE @]
    /\ op' = [op EXCEPT ![t].result = "Ok"]
    /\ pc' = [pc EXCEPT ![t] = "match"]
    /\ UNCHANGED <<lifetimeVars, attached, calls, faulted, nOps, nCalls, nSkipped>>

\* An Err that is logged and then unwrapped, so the delivery panics.
FinishAbortsOnError(t) ==
    /\ pc[t] = "match"
    /\ attached' = [attached EXCEPT ![t] =
            IF op[t].detach /\ jni.scopedAttach THEN FALSE ELSE @]
    /\ log' = [log EXCEPT ![t] =
            IF op[t].result = "Err"
            THEN Append(@, ReportMessage(OperationName(op[t].kind), op[t].error))
            ELSE @]
    /\ pc' = [pc EXCEPT ![t] = IF op[t].result = "Err" THEN "panicked" ELSE "done"]
    /\ UNCHANGED <<lifetimeVars, op, calls, faulted, nOps, nCalls, nSkipped>>

\* The rest of attach_and_log_on_error: the closure ends and its local `env`
\* goes out of scope, which detaches a thread this call attached or leaves it
\* attached, as the jni crate has it; the result is matched and an Err logged.
Finish(t) ==
    /\ pc[t] = "match"
    /\ attached' = [attached EXCEPT ![t] =
            IF op[t].detach /\ jni.scopedAttach THEN FALSE ELSE @]
    /\ log' = [log EXCEPT ![t] =
            IF op[t].result = "Err"
            THEN Append(@, ReportMessage(OperationName(op[t].kind), op[t].error))
            ELSE @]
    /\ pc' = [pc EXCEPT ![t] = "done"]
    /\ UNCHANGED <<lifetimeVars, op, calls, faulted, nOps, nCalls, nSkipped>>

\* A delivery that takes its adapter by value and drops it on the way out.
ReturnConsumesAdapter(t) ==
    /\ pc[t] = "done"
    /\ faulted' = IF op[t].error # "none"
                  THEN faulted \cup {<<op[t].adapter, op[t].kind, op[t].error>>}
                  ELSE faulted
    /\ adapters' = [adapters EXCEPT ![op[t].adapter].state = "dropped"]
    /\ strong' = [strong EXCEPT ![adapters[op[t].adapter].global] = @ - 1]
    /\ refCount' = [refCount EXCEPT ![adapters[op[t].adapter].listener] =
            IF strong[adapters[op[t].adapter].global] = 1 THEN @ - 1 ELSE @]
    /\ op' = [op EXCEPT ![t] = NoOp]
    /\ calls' = [calls EXCEPT ![t] = << >>]
    /\ log' = [log EXCEPT ![t] = << >>]
    /\ pc' = [pc EXCEPT ![t] = "idle"]
    /\ UNCHANGED <<jni, newResult, attached, nOps, nCalls, nSkipped>>

\* The ChatListener method returns to the event source: its arguments and
\* locals are gone and the borrow of the adapter ends.
Return(t) ==
    /\ pc[t] = "done"
    /\ faulted' = IF op[t].error # "none"
                  THEN faulted \cup {<<op[t].adapter, op[t].kind, op[t].error>>}
                  ELSE faulted
    /\ op' = [op EXCEPT ![t] = NoOp]
    /\ calls' = [calls EXCEPT ![t] = << >>]
    /\ log' = [log EXCEPT ![t] = << >>]
    /\ pc' = [pc EXCEPT ![t] = "idle"]
    /\ UNCHANGED <<lifetimeVars, attached, nOps, nCalls, nSkipped>>

\* ---------------------------------------------------------------- specifications
Lifetime ==
    \/ \E o \in Objs : New(o)
    \/ \E a \in AdapterIds : Clone(a)
    \/ \E a \in AdapterIds : MakeListener(a)
    \/ \E a \in AdapterIds : Drop(a)

Steps(t) ==
    \/ Attach(t)
    \/ ConvertEnvelope(t)
    \/ ConvertAck(t)
    \/ Translate(t)
    \/ Invoke(t)
    \/ CallReturns(t)
    \/ InterruptedHandler(t)
    \/ Finish(t)
    \/ Return(t)

\* Every thread delivers, the three events interleaved.
Next ==
    \/ Lifetime
    \/ \E t \in Threads, a \in AdapterIds :
          ReceivedIncomingMessage(t, a, SampleEnvelope, SampleTimestamp, SampleAck)
    \/ \E t \in Threads, a \in AdapterIds : ReceivedQueueEmpty(t, a)
    \/ \E t \in Threads, a \in AdapterIds : ConnectionInterrupted(t, a, SampleCause)
    \/ \E t \in Threads : Steps(t)

Spec == Init /\ [][Next]_vars

\* The steps of a delivery that are native code: all but the return of the Java
\* method, which is up to the listener.
NativeStep(t) ==
    \/ Attach(t)
    \/ ConvertEnvelope(t)
    \/ ConvertAck(t)
    \/ Translate(t)
    \/ Invoke(t)
    \/ InterruptedHandler(t)
    \/ Finish(t)
    \/ Return(t)

\* Every thread keeps running its native code; a Java method may never return.
FairSpec == Spec /\ \A t \in Threads : WF_vars(NativeStep(t))

\* One message at a time, every envelope, timestamp and ack, through adapters
\* that are constructed and kept.
Quiet == \A t \in Threads : ~Running(t)

NextIncoming ==
    \/ \E o \in Objs : New(o)
    \/ /\ Quiet
       /\ \E t \in Threads, a \in Live, e \in Envelopes, ts \in Timestamps, k \in Acks :
             ReceivedIncomingMessage(t, a, e, ts, k)
    \/ \E t \in Threads :
          \/ Attach(t)
          \/ ConvertEnvelope(t)
          \/ ConvertAck(t)
          \/ Invoke(t)
          \/ CallReturns(t)
          \/ Finish(t)
          \/ Return(t)

SpecIncoming == Init /\ [][NextIncoming]_vars

\* ---------------------------------------------------------------- properties
\* C1: JniChatListener::new on an object whose class is not the expected one
\* returns TypeMismatch and retains nothing: such an object never has an adapter
\* and its count never leaves its initial value, and the failing call leaves
\* every reference count and the set of adapters as they were.
C1_TypeMismatchRetainsNothing ==
    /\ [](\A o \in Objs : ClassNameOf(o) # ExpectedClass =>
            /\ refCount[o] = InitRefs
            /\ LiveOn(o) = {} /\ DroppedOn(o) = {}
            /\ (newResult.obj = o => newResult.result = "TypeMismatch"))
    /\ [][(newResult' # newResult /\ newResult'.result = "TypeMismatch")
            => UNCHANGED <<adapters, refCount, strong>>]_vars

\* A construction has failed with TypeMismatch while an adapter is live.
C1_Witness == newResult.result = "TypeMismatch" /\ Live # {}

\* C2 (as amended): construction from a correctly typed object never returns
\* an error: it succeeds or it panics; and once every instance on an object
\* (the original and its N clones) has been dropped, in whatever order, the
\* object's count is its pre-construction value plus one for every reference
\* whose deletion failed: never below the pre-construction value, and equal to
\* it when every deletion succeeded.
C2_AllDroppedRestoresCount ==
    /\ (ClassNameOf(newResult.obj) = ExpectedClass =>
            newResult.result \in {"Ok", "panicked"})
    /\ \A o \in Objs :
          /\ refCount[o] >= InitRefs
          /\ (LiveOn(o) = {} /\ DroppedOn(o) # {}) =>
                refCount[o] = InitRefs + Cardinality(LeakedOn(o))

\* C2 as stated: after all N+1 instances are dropped the count is one below its
\* pre-construction value.
C2_Original ==
    \A o \in Objs : (LiveOn(o) = {} /\ DroppedOn(o) # {}) => refCount[o] = InitRefs - 1

\* An adapter and a clone of it have both been dropped and none is left.
C2_Witness ==
    \E o \in Objs : /\ LiveOn(o) = {} /\ Cardinality(DroppedOn(o)) >= 2
                    /\ LeakedOn(o) = {} /\ adapters[2].global = 1

\* The bytes of a Java byte[] read back as unsigned are those of the envelope.
ByteIdentical(arr, e) ==
    /\ Len(arr) = Len(e)
    /\ \A i \in 1..Len(e) : arr[i] \in -128..127 /\ (arr[i] + 256) % 256 = e[i]

\* A signed value of the timestamp's width congruent to the unsigned T.
SameMillis(arg, T) ==
    /\ arg \in -(TsModulus \div 2)..(TsModulus \div 2 - 1)
    /\ (arg - T) % TsModulus = 0

\* C4 (as amended): a received_incoming_message(E, T, ack) that returns has
\* issued exactly one onIncomingMessage call, with a byte-identical E, T's epoch
\* milliseconds as a signed integer of the same width and the handle minted for
\* ack, unless converting E or ack failed, and then it has issued no call.
C4_IncomingMessageCall ==
    \A t \in Threads : (op[t].kind = "incoming" /\ pc[t] = "done") =>
        IF op[t].error = "ConversionError"
        THEN calls[t] = << >>
        ELSE /\ Len(calls[t]) = 1
             /\ calls[t][1].method = "onIncomingMessage"
             /\ calls[t][1].target = adapters[op[t].adapter].listener
             /\ Len(calls[t][1].args) = 3
             /\ ByteIdentical(calls[t][1].args[1], op[t].envelope)
             /\ SameMillis(calls[t][1].args[2], op[t].timestamp)
             /\ calls[t][1].args[3] = ToHandle(op[t].ack)

\* C4 as stated: every received_incoming_message(E, T, ack) issues exactly one
\* onIncomingMessage call with E, T and the ack handle.
C4_Original ==
    \A t \in Threads : (op[t].kind = "incoming" /\ pc[t] = "done") =>
        /\ Len(calls[t]) = 1
        /\ calls[t][1].method = "onIncomingMessage"
        /\ ByteIdentical(calls[t][1].args[1], op[t].envelope)
        /\ calls[t][1].args[2] = op[t].timestamp
        /\ calls[t][1].args[3] = ToHandle(op[t].ack)

\* A message with a byte above 127 and a timestamp in the upper half was
\* delivered with one call.
C4_Witness ==
    \E t \in Threads :
        /\ op[t].kind = "incoming" /\ pc[t] = "done" /\ Len(calls[t]) = 1
        /\ Len(op[t].envelope) >= 1 /\ op[t].envelope[1] >= 128
        /\ op[t].timestamp >= TsModulus \div 2

\* C5: a received_queue_empty() has issued no call before its invocation and
\* exactly one zero-argument onQueueEmpty call from then until it returns,
\* whatever was delivered before on the same adapter.
C5_QueueEmptyCall ==
    \A t \in Threads : op[t].kind = "queue_empty" =>
        IF pc[t] \in {"attach", "invoke"}
        THEN calls[t] = << >>
        ELSE calls[t] = << [method |-> "onQueueEmpty",
                            target |-> adapters[op[t].adapter].listener,
                            args |-> << >>] >>

\* A queue-empty delivery made its call on an adapter on which an earlier
\* delivery had failed.
C5_Witness ==
    \E t \in Threads :
        /\ op[t].kind = "queue_empty" /\ pc[t] = "done" /\ Len(calls[t]) = 1
        /\ \E f \in faulted : f[1] = op[t].adapter

\* C6: a connection_interrupted(cause) that returns has issued exactly one
\* onConnectionInterrupted call carrying the throwable translated from cause,
\* unless the translation failed, and then it has issued no call and logged
\* exactly one diagnostic.
C6_ConnectionInterruptedCall ==
    \A t \in Threads : (op[t].kind = "interrupted" /\ pc[t] = "done") =>
        IF op[t].error = "TranslationError"
        THEN calls[t] = << >> /\ Len(log[t]) = 1
        ELSE calls[t] = << [method |-> "onConnectionInterrupted",
                            target |-> adapters[op[t].adapter].listener,
                            args |-> <<ToThrowable(op[t].cause)>>] >>

\* A connection_interrupted whose translation failed has returned.
C6_Witness ==
    \E t \in Threads :
        /\ op[t].kind = "interrupted" /\ pc[t] = "done"
        /\ op[t].error = "TranslationError" /\ Len(log[t]) = 1

\* Some delivery through an adapter of the same listener object has failed.
FamilyFaulted(a) ==
    \E f \in faulted : adapters[f[1]].listener = adapters[a].listener

\* C7: a swallowed failure never takes the delivering thread down (only a failed
\* attach panics), and a delivery on an adapter whose listener has seen failed
\* deliveries still issues its own call: it ends with exactly one call unless
\* its own conversion or translation failed.
C7_FaultIsolation ==
    \A t \in Threads :
        /\ pc[t] = "panicked" => op[t].error = "none"
        /\ (pc[t] = "done" /\ FamilyFaulted(op[t].adapter)) =>
              (Len(calls[t]) = 1 <=> op[t].error \notin {"ConversionError", "TranslationError"})

\* received_queue_empty made its onQueueEmpty call after onIncomingMessage had
\* thrown on another instance of the same listener.
C7_Witness ==
    \E t \in Threads :
        /\ op[t].kind = "queue_empty" /\ pc[t] = "done"
        /\ calls[t] # << >> /\ calls[t][1].method = "onQueueEmpty"
        /\ \E f \in faulted :
              /\ f[1] # op[t].adapter
              /\ adapters[f[1]].listener = adapters[op[t].adapter].listener
              /\ f[2] = "incoming" /\ f[3] = "InvocationError"

Panicked == {t \in Threads : pc[t] = "panicked"}
BeforeInvoke ==
    {t \in Threads : pc[t] \in {"attach", "convert_envelope", "convert_ack", "translate", "invoke"}}

\* C8 (as amended): under every interleaving each delivery issues its own Java
\* call exactly when its attach, conversions and translation succeed (so K
\* deliveries give exactly K calls when no attach panics and no conversion or
\* translation fails, and fewer otherwise), and no step of a delivery changes
\* any object's reference count.
C8_ConcurrentDeliveries ==
    /\ [](nOps = nCalls + nSkipped + Cardinality(Panicked) + Cardinality(BeforeInvoke))
    /\ [][(pc' # pc) => (refCount' = refCount)]_vars

\* C8 as stated: once K deliveries have ended, exactly K Java calls were made.
C8_Original ==
    Quiet => nCalls = nOps

\* Every thread is inside its own Java call at the same time.
C8_Witness ==
    /\ \A t \in Threads : pc[t] = "in_call"
    /\ nCalls = NThreads

\* C9: a failed attach panics instead of being logged and swallowed: the
\* delivery issues no call and no log entry and does not return; conversions,
\* calls and returns happen only in deliveries whose thread is attached.
C9_AttachFailureIsFatal ==
    \A t \in Threads :
        /\ pc[t] = "panicked" => (calls[t] = << >> /\ log[t] = << >> /\ ~attached[t])
        /\ pc[t] \in {"convert_envelope", "convert_ack", "translate", "invoke",
                      "in_call", "handler", "match"} => attached[t]
        /\ pc[t] = "done" => (op[t].detach \/ attached[t])
        /\ \A i \in 1..Len(log[t]) : log[t][i][Len(log[t][i])] # "AttachError"

\* A delivery has panicked on a failed attach while another one is in its call.
C9_Witness ==
    \E t, u \in Threads : pc[t] = "panicked" /\ pc[u] = "in_call"

\* The operation names of the specification.
SpecName(kind) ==
    CASE kind = "incoming" -> "incoming message"
      [] kind = "queue_empty" -> "queue empty"
      [] kind = "interrupted" -> "connection interrupted"
      [] OTHER -> "none"

\* C10 (as amended): every swallowed failure is logged with the underlying
\* error; received_incoming_message and received_queue_empty log it under
\* their operation names "incoming message" and "queue empty", and
\* connection_interrupted logs it under the method name onConnectionInterrupted.
C10_FailuresAreLogged ==
    \A t \in Threads :
        /\ (pc[t] = "done" /\ op[t].error # "none") => Len(log[t]) >= 1
        /\ \A i \in 1..Len(log[t]) :
              /\ op[t].error # "none"
              /\ IF op[t].kind = "interrupted"
                 THEN log[t][i] = <<"failed to call onConnectionInterrupted with cause: ",
                                    op[t].error>>
                 ELSE log[t][i] = <<"failed to report ", SpecName(op[t].kind), ": ",
                                    op[t].error>>

\* C10 as stated: every log entry names the operation of the specification
\* and the underlying error.
C10_Original ==
    \A t \in Threads : \A i \in 1..Len(log[t]) :
        /\ \E j \in 1..Len(log[t][i]) : log[t][i][j] = SpecName(op[t].kind)
        /\ \E j \in 1..Len(log[t][i]) : log[t][i][j] = op[t].error

\* A failed incoming-message delivery and a failed connection-interrupted
\* delivery have both been logged.
C10_Witness ==
    \E t, u \in Threads :
        /\ pc[t] = "done" /\ op[t].kind = "incoming" /\ Len(log[t]) = 1
        /\ pc[u] = "done" /\ op[u].kind = "interrupted" /\ Len(log[u]) = 1

C12_NoRetry ==
    /\ nCalls <= nOps
    /\ \A t \in Threads :
          /\ Len(calls[t]) <= 1
          /\ pc[t] \in {"attach", "convert_envelope", "convert_ack", "translate", "invoke"}
                => (calls[t] = << >> /\ op[t].error = "none")
          /\ pc[t] = "in_call" => (Len(calls[t]) = 1 /\ op[t].error = "none")
          /\ op[t].error \in {"ConversionError", "TranslationError"} => calls[t] = << >>
          /\ op[t].error = "InvocationError" =>
                (Len(calls[t]) = 1 /\ pc[t] \in {"handler", "match", "done"})

\* Every delivery allowed has been started, and one whose Java method threw is
\* about to return with its single call.
C12_Witness ==
    /\ nOps = MaxOps
    /\ \E t \in Threads :
          pc[t] = "done" /\ op[t].error = "InvocationError" /\ Len(calls[t]) = 1

\* C13: a delivery whose attach has succeeded always gets to its Java call or,
\* if a conversion or translation fails, returns; once its Java call has
\* returned, normally or by throwing, the delivery returns to its caller; and
\* the native steps of a thread are never blocked, whatever the other threads
\* are doing, a Java call that never returns included.
C13_DeliveriesReturn ==
    /\ [](\A t \in Threads :
            pc[t] \in {"attach", "convert_envelope", "convert_ack", "translate", "invoke",
                       "handler", "match", "done"} => ENABLED NativeStep(t))
    /\ \A t \in Threads :
          /\ (pc[t] \in {"convert_envelope", "convert_ack", "translate", "invoke"})
                ~> (pc[t] \in {"in_call", "idle"})
          /\ (pc[t] \in {"handler", "match", "done"}) ~> (pc[t] = "idle")

\* While one thread is inside a Java call that has not returned, a delivery on
\* another thread has made its own call, seen it throw and is returning.
C13_Witness ==
    \E t, u \in Threads :
        /\ pc[u] = "in_call"
        /\ pc[t] = "done" /\ Len(calls[t]) = 1 /\ op[t].error = "InvocationError"
        /\ op[t].adapter # op[u].adapter

\* C15: in every delivery the attach comes first, the conversions or the
\* translation next and the Java call last: until its thread's attach for this
\* call has succeeded a delivery has converted nothing and called nothing;
\* conversions and the call happen on an attached thread; and a call is issued
\* only with every argument of its method converted, none having failed.
C15_StepOrder ==
    \A t \in Threads :
        /\ pc[t] \in {"idle", "attach", "panicked"} =>
              /\ op[t].env_array = << >> /\ op[t].ack_handle = NoHandle
              /\ op[t].throwable = << >> /\ calls[t] = << >>
        /\ (op[t].env_array # << >> \/ op[t].ack_handle # NoHandle
              \/ op[t].throwable # << >> \/ calls[t] # << >>) =>
                 (attached[t] \/ (pc[t] = "done" /\ op[t].detach))
        /\ (pc[t] = "invoke" \/ calls[t] # << >>) =>
              /\ op[t].error \notin {"ConversionError", "TranslationError"}
              /\ op[t].kind = "incoming" =>
                    /\ op[t].env_array = ToJByteArray(op[t].envelope)
                    /\ op[t].ack_handle = ToHandle(op[t].ack)
              /\ op[t].kind = "interrupted" => op[t].throwable = ToThrowable(op[t].cause)

\* One delivery attached its thread, converted both arguments and is inside
\* onIncomingMessage, while another has started and is still to attach.
C15_Witness ==
    \E t, u \in Threads :
        /\ pc[t] = "in_call" /\ op[t].kind = "incoming" /\ op[t].detach
        /\ op[t].env_array # << >> /\ op[t].ack_handle # NoHandle
        /\ pc[u] = "attach" /\ op[u].kind = "interrupted"

\* C16: in received_incoming_message the envelope is converted before the ack,
\* and a failure of either conversion ends the closure at once: no ack handle
\* exists while or after the envelope conversion fails, no Java call is made,
\* the delivery does not panic, and it returns having logged the single entry
\* "failed to report incoming message: <error>".
C16_ConversionFailureSwallowed ==
    \A t \in Threads :
        /\ pc[t] = "convert_envelope" => op[t].ack_handle = NoHandle
        /\ (pc[t] = "convert_ack" \/ op[t].ack_handle # NoHandle) =>
              op[t].env_array = ToJByteArray(op[t].envelope)
        /\ op[t].error = "ConversionError" =>
              /\ op[t].kind = "incoming" /\ pc[t] \in {"match", "done"}
              /\ op[t].ack_handle = NoHandle
              /\ calls[t] = << >>
              /\ pc[t] = "match" => (log[t] = << >> /\ ENABLED Finish(t))
              /\ pc[t] = "done" =>
                    /\ log[t] = << <<"failed to report ", "incoming message", ": ",
                                     "ConversionError">> >>
                    /\ ENABLED Return(t)

\* One delivery is returning after its envelope conversion failed and another
\* after its ack conversion failed, each with its one log entry and no call.
C16_Witness ==
    \E t, u \in Threads :
        /\ pc[t] = "done" /\ op[t].error = "ConversionError" /\ op[t].env_array = << >>
        /\ pc[u] = "done" /\ op[u].error = "ConversionError" /\ op[u].env_array # << >>
        /\ Len(log[t]) = 1 /\ Len(log[u]) = 1

\* C17: no step of a delivery, from the call of the ChatListener method to its
\* return or panic, successful or not, changes any adapter's JavaVM or listener
\* reference, any object's reference count, the set of live adapters or the
\* result of the last construction; and the adapter a delivery runs on is live
\* at every point of the delivery.
C17_DeliveriesAreStateless ==
    /\ [](\A t \in Threads : Running(t) => op[t].adapter \in Live)
    /\ [][(pc' # pc) =>
            /\ adapters' = adapters
            /\ refCount' = refCount
            /\ strong' = strong
            /\ Live' = Live
            /\ newResult' = newResult]_vars

\* With two adapters live on the listener, one delivery is returning after its
\* Java method threw and another after its call succeeded.
C17_Witness ==
    /\ Cardinality(LiveOn("listener")) = 2
    /\ \E t, u \in Threads :
          /\ pc[t] = "done" /\ op[t].error = "InvocationError"
          /\ pc[u] = "done" /\ op[u].error = "none" /\ Len(calls[u]) = 1

\* C18: a delivery never holds more than one log entry; it holds none until a
\* step of it has failed; when it returns it holds exactly one if its
\* conversion, translation or invocation failed and none if its Java call
\* completed; and in connection_interrupted the closure hands Ok to
\* attach_and_log_on_error whatever happened, so the entry of a failure is the
\* closure's own and no second one follows.
C18_AtMostOneLogEntry ==
    \A t \in Threads :
        /\ Len(log[t]) <= 1
        /\ log[t] # << >> => op[t].error # "none"
        /\ pc[t] = "done" => (Len(log[t]) = 1 <=> op[t].error # "none")
        /\ pc[t] = "done" =>
              /\ calls[t] = << >> => Len(log[t]) = 1
              /\ op[t].error = "InvocationError" => Len(log[t]) = 1
              /\ op[t].error = "none" => (Len(calls[t]) = 1 /\ log[t] = << >>)
        /\ (op[t].kind = "interrupted" /\ pc[t] \in {"match", "done"}) =>
              /\ op[t].result = "Ok"
              /\ Len(log[t]) = 1 <=> op[t].error # "none"
              /\ \A i \in 1..Len(log[t]) : log[t][i] = InterruptedMessage(op[t].error)

\* A connection_interrupted whose Java method threw is returning with its one
\* entry while a delivery whose call completed is returning with none.
C18_Witness ==
    \E t, u \in Threads :
        /\ pc[t] = "done" /\ op[t].kind = "interrupted"
        /\ op[t].error = "InvocationError" /\ Len(log[t]) = 1
        /\ pc[u] = "done" /\ op[u].error = "none" /\ log[u] = << >>

\* C19: as long as one instance on an object is live, the original or a clone
\* and whichever were dropped before, the native side holds at least one
\* strong reference on the object; a running delivery's adapter is live, and
\* the target of every Java call is an object the native side still holds.
C19_ListenerStaysReferenced ==
    /\ \A o \in Objs : LiveOn(o) # {} => refCount[o] >= InitRefs + 1
    /\ \A t \in Threads :
          /\ Running(t) =>
                /\ op[t].adapter \in Live
                /\ strong[adapters[op[t].adapter].global] >= 1
                /\ refCount[adapters[op[t].adapter].listener] >= InitRefs + 1
          /\ \A i \in 1..Len(calls[t]) :
                /\ calls[t][i].target = adapters[op[t].adapter].listener
                /\ refCount[calls[t][i].target] >= InitRefs + 1

\* The original instance on the listener has been dropped and a delivery
\* through its clone, the last holder of the global reference, is inside its
\* Java call.
C19_Witness ==
    /\ adapters[1].state = "dropped" /\ adapters[1].listener = "listener"
    /\ 2 \in LiveOn("listener") /\ adapters[2].global = 1
    /\ \E t \in Threads : pc[t] = "in_call" /\ op[t].adapter = 2

\* C20: the second argument of onIncomingMessage is the timestamp's unsigned
\* epoch milliseconds read as a signed integer of the same width: T itself
\* below half the modulus (2^63), T minus the modulus (2^64), a negative value,
\* from there on; the cast is no step that can fail: with both conversions done
\* the call is issued whatever T is, and no failure other than a conversion or
\* the Java method throwing ever ends an incoming-message delivery.
C20_TimestampReinterpreted ==
    \A t \in Threads : op[t].kind = "incoming" =>
        /\ \A i \in 1..Len(calls[t]) :
              LET T == op[t].timestamp
                  arg == calls[t][i].args[2]
              IN  /\ T < TsModulus \div 2 => arg = T
                  /\ T >= TsModulus \div 2 => (arg = T - TsModulus /\ arg < 0)
        /\ pc[t] = "invoke" => ENABLED Invoke(t)
        /\ op[t].error \in {"none", "ConversionError", "InvocationError"}
        /\ (pc[t] = "done" /\ op[t].error # "ConversionError") => Len(calls[t]) = 1

\* A message stamped exactly at half the modulus is inside onIncomingMessage
\* with the most negative value as its timestamp argument.
C20_Witness ==
    \E t \in Threads :
        /\ pc[t] = "in_call" /\ op[t].kind = "incoming"
        /\ op[t].timestamp = TsModulus \div 2
        /\ calls[t][1].args[2] = -(TsModulus \div 2)
====
